---- MODULE Spec2Model ----
(***************************************************************************)
(* Model of src/app.py: a Streamlit page that collects report files        *)
(* (PDF / Excel) from a web page, extracts waste-report rows from them     *)
(* and keeps the extracted tables in a session history.                    *)
(*                                                                         *)
(* Three specifications share this module:                                 *)
(*   SpecLocator   read_excel_robust, the heuristic worksheet reader       *)
(*   SpecDispatch  extract_data_with_ai, the per-file dispatcher           *)
(*   Spec          the page script: session state, buttons, crawl loop     *)
(*                                                                         *)
(* Text is modelled as a sequence of characters.  The Japanese characters  *)
(* of the source are written in romaji, one string per character:          *)
(*   "hai" "ki" "butsu" "no" "shu" "rui"   = 廃棄物の種類                  *)
(*   "san" "gyo"                           = 産業                          *)
(*   "zen" "sho" "ri" "i" "taku" "ryo"     = 全処理委託量                  *)
(*   "go" "kei"                            = 合計                          *)
(***************************************************************************)
EXTENDS Integers, Sequences, FiniteSets, TLC

VARIABLES
    \* ---- read_excel_robust (SpecLocator) ----
    l_pc,            \* "open" | "sheets" | "returned"
    workbook,        \* worksheets of xls.sheet_names not yet visited
    df,              \* the grid of the worksheet read last (header=None)
    sheet_read,      \* whether pd.read_excel succeeded for that worksheet
    sheet_records,   \* the records appended for that worksheet
    extracted_data   \* the list the function accumulates and returns

locVars == <<l_pc, workbook, df, sheet_read, sheet_records, extracted_data>>

VARIABLES
    \* ---- extract_data_with_ai (SpecDispatch) ----
    d_pc,            \* "idle" | "excel_ai" | "pdf_upload" | "pdf_poll"
                     \*   | "returned" | "raised"
    filename,        \* <<stem, extension>> of the file being analysed
    file_readable,   \* whether pandas can open the file
    data_list,       \* the list read_excel_robust gave for it
    file_state,      \* sample_file.state.name
    timeout_counter, \* polls of the processing state so far
    upload_calls,    \* genai.upload_file calls made for this file
    generate_calls,  \* model.generate_content calls made for this file
    fault,           \* the failure met while analysing this file, or "none"
    d_result         \* the value returned to the caller

dispVars == <<d_pc, filename, file_readable, data_list, file_state,
              timeout_counter, upload_calls, generate_calls, fault, d_result>>

VARIABLES
    \* ---- the page script and st.session_state (Spec) ----
    pc,               \* where the script run stands; "wait": run finished
    clicked,          \* the button whose click started this run, or "none"
    rendered,         \* the buttons drawn so far in this run
    history,          \* st.session_state['history']
    processed_urls,   \* st.session_state['processed_urls']
    is_running,       \* st.session_state['is_running']
    keyword,          \* the text input "ファイル名に含む文字"
    batch_size,       \* the number input
    all_file_links,   \* the list get_file_links returned in this run
    unprocessed_links,\* the links of all_file_links not yet processed
    iter_log,         \* the latest pass: its batch, downloads and extractions
    merged_columns    \* the columns of merged_df in the history area

crawlVars == <<pc, clicked, rendered, history, processed_urls, is_running,
               keyword, batch_size, all_file_links, unprocessed_links,
               iter_log, merged_columns>>

vars == <<locVars, dispVars, crawlVars>>

-----------------------------------------------------------------------------
(* Text helpers: Python's `in`, str.replace(x, ""), str.strip(), float().   *)

NaN == <<"NaN">>          \* pandas' missing cell; pd.notna is false only here

Contains(s, sub) ==
    \E i \in 1..(Len(s) - Len(sub) + 1) : SubSeq(s, i, i + Len(sub) - 1) = sub

RECURSIVE RemoveChars(_, _)
RemoveChars(s, drop) ==
    IF s = <<>> THEN <<>>
    ELSE IF Head(s) \in drop THEN RemoveChars(Tail(s), drop)
    ELSE <<Head(s)>> \o RemoveChars(Tail(s), drop)

Whitespace == {" ", "\n"}

RECURSIVE LStrip(_)
LStrip(s) ==
    IF s # <<>> /\ Head(s) \in Whitespace THEN LStrip(Tail(s)) ELSE s

RECURSIVE RStrip(_)
RStrip(s) ==
    IF s # <<>> /\ s[Len(s)] \in Whitespace
    THEN RStrip(SubSeq(s, 1, Len(s) - 1)) ELSE s

Strip(s) == RStrip(LStrip(s))

\* str(cell): a missing cell prints as "nan"
Str(cell) == IF cell = NaN THEN <<"n", "a", "n">> ELSE cell

Digits == {"0", "1", "2", "5", "9"}

\* float(s) raises ValueError unless s (already stripped of commas and of
\* surrounding blanks) is a decimal numeral; "nan" is accepted by float too.
ParsesAsFloat(s) ==
    LET body == IF s # <<>> /\ Head(s) \in {"-", "+"} THEN Tail(s) ELSE s
        dots == {i \in 1..Len(body) : body[i] = "."}
        digs == {i \in 1..Len(body) : body[i] \in Digits}
    IN  \/ /\ Cardinality(dots) <= 1
           /\ digs # {}
           /\ dots \cup digs = 1..Len(body)
        \/ body = <<"n", "a", "n">>

MarkerKind    == <<"hai", "ki", "butsu", "no", "shu", "rui">>
MarkerSangyo  == <<"san", "gyo">> \o MarkerKind
TokenKind     == <<"shu", "rui">>
TokenAmountFull == <<"zen", "sho", "ri", "i", "taku", "ryo">>
TokenAmount   == <<"i", "taku", "ryo">>
TokenTotal    == <<"go", "kei">>

-----------------------------------------------------------------------------
(* read_excel_robust: the cells a worksheet row can hold.                   *)

CellKindHdr    == MarkerKind                                   \* 廃棄物の種類
CellSangyoHdr  == MarkerSangyo                                 \* 産業廃棄物の種類
CellSplitHdr   == <<"hai", "ki", "butsu", "no", " ", "shu", "rui">>  \* 廃棄物の 種類
CellOtherKind  == <<"ji", "gyo", "no", "shu", "rui">>          \* 事業の種類
CellAmountHdr  == <<"10">> \o TokenAmountFull                  \* ⑩全処理委託量
CellAmountHdr2 == <<"i", " ", "taku", "ryo">>                  \* 委 託量
CellRubble     == <<"ga", "re", "ki", "rui">>                  \* がれき類
CellRubblePad  == <<" ">> \o CellRubble \o <<" ">>
CellTotal      == TokenTotal                                   \* 合計
CellGrandTotal == <<"so">> \o TokenTotal                       \* 総合計
CellBlank      == <<" ">>
CellNanText    == <<" ", "n", "a", "n">>                       \* " nan"
CellNum        == <<"1", "0", "0", ".", "5">>                  \* 100.5
CellNumComma   == <<"1", ",", "2", "9", "9", ".", "9", "9">>   \* 1,299.99
CellNote       == <<"chu", "1">>                               \* 注1

\* Rows of three cells.  Header rows first, then data rows.
RowChoices ==
    { <<NaN, CellKindHdr, CellAmountHdr>>,
      <<CellSangyoHdr, CellAmountHdr2, CellOtherKind>>,
      <<CellKindHdr, CellNote, NaN>>,
      <<CellSplitHdr, CellAmountHdr, NaN>>,
      <<NaN, CellRubble, CellNum>>,
      <<NaN, CellRubblePad, CellNumComma>>,
      <<NaN, CellTotal, CellNum>>,
      <<NaN, CellGrandTotal, CellNum>>,
      <<NaN, CellRubble, NaN>>,
      <<NaN, CellBlank, CellNum>>,
      <<NaN, CellRubble, CellNote>>,
      <<NaN, CellNanText, CellNum>>,
      <<NaN, CellNum, CellRubble>> }

MaxRows == 3

Grids == UNION { [1..n -> RowChoices] : n \in 0..MaxRows }

\* line 79: the row is a header row when some cell's text holds the marker
IsHeaderRow(row) ==
    \/ \E c \in 1..Len(row) : Contains(Str(row[c]), MarkerKind)
    \/ \E c \in 1..Len(row) : Contains(Str(row[c]), MarkerSangyo)

\* lines 76-87: index of the first header row, 0 when there is none
\* (the source's target_row_idx = -1; rows are numbered from 1 here)
TargetRowIdx(grid) ==
    LET hs == {r \in 1..Len(grid) : IsHeaderRow(grid[r])}
    IN  IF hs = {} THEN 0 ELSE CHOOSE r \in hs : \A q \in hs : r <= q

\* lines 81-86: one pass over the header row's cells, later cells overwrite
RECURSIVE ColMapping(_, _, _)
ColMapping(row, c_idx, acc) ==
    IF c_idx > Len(row) THEN acc
    ELSE LET val == RemoveChars(Str(row[c_idx]), {"\n", " "})
         IN  IF Contains(val, TokenKind)
             THEN ColMapping(row, c_idx + 1, [acc EXCEPT !.kind = c_idx])
             ELSE IF Contains(val, TokenAmountFull) \/ Contains(val, TokenAmount)
             THEN ColMapping(row, c_idx + 1, [acc EXCEPT !.amount = c_idx])
             ELSE ColMapping(row, c_idx + 1, acc)

NoMapping == [kind |-> 0, amount |-> 0]

\* a reader that drops only the rows whose category IS the total token
IsGarbageKindEq(waste_type) ==
    \/ waste_type = TokenTotal
    \/ waste_type = <<>>
    \/ waste_type = <<"n", "a", "n">>

\* line 107: the rows dropped as garbage

IsGarbageKind(waste_type) ==
    \/ Contains(waste_type, TokenTotal)
    \/ waste_type = <<>>
    \/ waste_type = <<"n", "a", "n">>

\* lines 110-122: the dict appended for a surviving row.  Field names:
\*   submitted 提出日, fiscal_year 対象年度, doc_type 文書種類,
\*   emitter 排出事業者名, business_type 事業の種類, site_name 事業場名,
\*   address 住所, municipality 自治体名, waste_kind 廃棄物の種類,
\*   amount10 ⑩全処理委託量_ton, remarks 備考
LocatorRecord(waste_type, amt, sheet_name) ==
    [ submitted |-> << >>, fiscal_year |-> << >>,
      doc_type |-> <<"ho", "koku", "sho">>,
      emitter |-> << >>, business_type |-> << >>, site_name |-> << >>,
      address |-> << >>, municipality |-> << >>,
      waste_kind |-> waste_type, amount10 |-> amt,
      remarks |-> <<"Sheet: ", sheet_name>> ]

\* lines 96-124: the records one row below the header yields (none or one)
RowRecords(row, cm, sheet_name) ==
    LET kind_val   == row[cm.kind]
        amount_val == row[cm.amount]
        amt_str    == Strip(RemoveChars(Str(amount_val), {","}))
        waste_type == Strip(Str(kind_val))
    IN  IF kind_val # NaN /\ amount_val # NaN
           /\ ParsesAsFloat(amt_str) /\ ~IsGarbageKind(waste_type)
        THEN << LocatorRecord(waste_type, amt_str, sheet_name) >>
        ELSE << >>

\* lines 92-124: for i in range(start_row, len(df))
RECURSIVE HarvestRows(_, _, _, _)
HarvestRows(grid, i, cm, sheet_name) ==
    IF i > Len(grid) THEN << >>
    ELSE RowRecords(grid[i], cm, sheet_name)
         \o HarvestRows(grid, i + 1, cm, sheet_name)

\* lines 72-124: what one worksheet adds to extracted_data
SheetRecords(grid, sheet_name) ==
    LET t  == TargetRowIdx(grid)
        cm == IF t = 0 THEN NoMapping ELSE ColMapping(grid[t], 1, NoMapping)
    IN  IF t # 0 /\ cm.kind # 0 /\ cm.amount # 0
        THEN HarvestRows(grid, t + 1, cm, sheet_name)
        ELSE << >>

\* The workbooks read: one worksheet of any grid, or a first worksheet from
\* FirstSheets followed by a second worksheet of any grid.
FirstSheets ==
    { << >>,
      << <<NaN, CellKindHdr, CellAmountHdr>>, <<NaN, CellRubble, CellNum>> >>,
      << <<NaN, CellRubble, CellNum>> >> }

Workbooks ==
    { <<g>> : g \in Grids } \cup { <<f, g>> : f \in FirstSheets, g \in Grids }

LocInit ==
    /\ l_pc = "open"
    /\ workbook = << >>
    /\ df = << >>
    /\ sheet_read = FALSE
    /\ sheet_records = << >>
    /\ extracted_data = << >>

\* lines 59-61 and 126-128: pd.ExcelFile opens the workbook or raises
OpenWorkbook ==
    /\ l_pc = "open"
    /\ UNCHANGED <<dispVars, crawlVars>>
    /\ \/ /\ \E w \in Workbooks : workbook' = w
          /\ l_pc' = "sheets"
       \/ /\ workbook' = << >>
          /\ l_pc' = "returned"
    /\ extracted_data' = << >>
    /\ df' = << >>
    /\ sheet_read' = FALSE
    /\ sheet_records' = << >>

\* lines 63-124: one pass of the loop over xls.sheet_names; a worksheet is
\* named here by the number of worksheets still to read
ReadSheet ==
    /\ l_pc = "sheets"
    /\ UNCHANGED <<dispVars, crawlVars>>
    /\ workbook # << >>
    /\ df' = Head(workbook)
    /\ \/ /\ sheet_read' = TRUE
          /\ sheet_records' = SheetRecords(Head(workbook), Len(workbook))
          /\ extracted_data' =
                extracted_data \o SheetRecords(Head(workbook), Len(workbook))
       \/ /\ sheet_read' = FALSE            \* lines 67-70: continue
          /\ sheet_records' = << >>
          /\ extracted_data' = extracted_data
    /\ workbook' = Tail(workbook)
    /\ l_pc' = "sheets"

\* line 130
ReturnExtracted ==
    /\ l_pc = "sheets"
    /\ UNCHANGED <<dispVars, crawlVars>>
    /\ workbook = << >>
    /\ l_pc' = "returned"
    /\ UNCHANGED <<workbook, df, sheet_read, sheet_records, extracted_data>>

\* the next call of read_excel_robust
NextWorkbook ==
    /\ l_pc = "returned"
    /\ UNCHANGED <<dispVars, crawlVars>>
    /\ l_pc' = "open"
    /\ workbook' = << >>
    /\ df' = << >>
    /\ sheet_read' = FALSE
    /\ sheet_records' = << >>
    /\ extracted_data' = << >>

LocNext == OpenWorkbook \/ ReadSheet \/ ReturnExtracted \/ NextWorkbook

-----------------------------------------------------------------------------
(* C6: what the Table Locator emits for one worksheet.                      *)

\* the amount text of a row as the reader normalises it
AmountText(row, cm) == Strip(RemoveChars(Str(row[cm.amount]), {","}))
KindText(row, cm)   == Strip(Str(row[cm.kind]))

\* the categories left out.  "written": empty or equal to 合計, as the claim
\* says; "read": empty, holding 合計 anywhere, or the text nan
Excluded(reading, wt) ==
    IF reading = "written"
    THEN wt = << >> \/ wt = TokenTotal
    ELSE wt = << >> \/ Contains(wt, TokenTotal) \/ wt = <<"n", "a", "n">>

\* rows strictly below the first header row that the claim says are emitted
DataRows(grid, t, cm, reading) ==
    { i \in (t + 1)..Len(grid) :
        /\ grid[i][cm.kind] # NaN
        /\ grid[i][cm.amount] # NaN
        /\ ParsesAsFloat(AmountText(grid[i], cm))
        /\ ~Excluded(reading, KindText(grid[i], cm)) }

\* recs holds exactly one record per row of Q, in row order
OneRecordPerRow(recs, grid, cm, Q) ==
    /\ Len(recs) = Cardinality(Q)
    /\ \A k \in 1..Len(recs) :
         \E i \in Q :
            /\ Cardinality({j \in Q : j <= i}) = k
            /\ recs[k].waste_kind = KindText(grid[i], cm)
            /\ recs[k].amount10 = AmountText(grid[i], cm)

EmitsExactly(reading) ==
    (l_pc = "sheets" /\ sheet_read) =>
        LET t  == TargetRowIdx(df)
            cm == IF t = 0 THEN NoMapping ELSE ColMapping(df[t], 1, NoMapping)
        IN  IF t # 0 /\ cm.kind # 0 /\ cm.amount # 0
            THEN OneRecordPerRow(sheet_records, df, cm,
                                 DataRows(df, t, cm, reading))
            ELSE sheet_records = << >>

\* C6 as written: one record for every row below the first header row whose
\* category and amount cells are non-empty, whose amount parses as a number
\* once commas are removed and whose trimmed category is neither empty nor
\* equal to 合計; no record for any other row; nothing without a header row
\* or without both columns.
C6_AsWritten == EmitsExactly("written")

\* C6 amended: as above, but the rows left out are those whose trimmed
\* category is empty, contains 合計 anywhere, or is the text "nan".
C6_EmitsExactlyDataRows == EmitsExactly("read")

\* a worksheet with a header, both columns, a record emitted and a row whose
\* category merely contains 合計 (総合計) below the header
C6_Witness ==
    /\ l_pc = "sheets" /\ sheet_read
    /\ Len(sheet_records) >= 1
    /\ TargetRowIdx(df) # 0
    /\ \E i \in (TargetRowIdx(df) + 1)..Len(df) : df[i][2] = CellGrandTotal
    /\ ColMapping(df[TargetRowIdx(df)], 1, NoMapping).kind = 2

-----------------------------------------------------------------------------
(* extract_data_with_ai, lines 134-263.                                     *)

\* str.lower() on the extension os.path.splitext gives
Lower(ext) ==
    CASE ext = ".PDF"  -> ".pdf"
      [] ext = ".XLSX" -> ".xlsx"
      [] ext = ".Xls"  -> ".xls"
      [] OTHER         -> ext

FileExt(fname) == Lower(fname[2])

\* line 143
IsSpreadsheet(fname) == FileExt(fname) \in {".xlsx", ".xls"}

\* dict[key] = value
Put(item, key, value) ==
    [k \in (DOMAIN item) \cup {key} |-> IF k = key THEN value ELSE item[k]]

\* the files handed to the dispatcher
DispatchFiles ==
    { <<"r06", ".pdf">>, <<"r06", ".PDF">>, <<"r06", ".xlsx">>,
      <<"r05", ".xls">>, <<"r06", ".XLSX">>, <<"memo", ".csv">>, <<"memo", "">> }

\* what read_excel_robust can return for a readable workbook
LocatorReturns ==
    { << >>,
      << LocatorRecord(CellRubble, CellNum, 1) >>,
      << LocatorRecord(CellRubble, CellNum, 2),
         LocatorRecord(CellRubble, <<"1", "2", "9", "9", ".", "9", "9">>, 1) >> }

\* what json.loads(response.text) can give: a ValueError, a value that is
\* not a list of dicts (the stamping loop raises TypeError), or a list of
\* dicts.  file_name is ファイル名; label11 is a key the remote service
\* invents (⑪優良認定(t)), unknown to the column mapping.
RemoteLists ==
    { << >>,
      << [waste_kind |-> CellRubble, amount10 |-> <<"1", "0", ".", "5">>,
          remarks |-> <<"AI">>] >>,
      << [waste_kind |-> CellRubble] >>,
      << [submitted |-> <<"R6">>, fiscal_year |-> <<"R5">>,
          doc_type |-> <<"ho", "koku", "sho">>, emitter |-> <<"K">>,
          business_type |-> <<"B">>, site_name |-> <<"S">>,
          address |-> <<"A">>, municipality |-> <<"M">>,
          waste_kind |-> CellRubble, amount10 |-> <<"5">>,
          label11 |-> <<"0">>] ,
         [waste_kind |-> CellRubble, amount10 |-> <<"9">>,
          file_name |-> <<"other", ".pdf">>] >> }

JsonValues ==
    { [kind |-> "malformed", items |-> << >>],
      [kind |-> "not_a_list", items |-> << >>] }
    \cup { [kind |-> "list", items |-> l] : l \in RemoteLists }

\* lines 149-152
StampPython(item, fname) ==
    LET stamped == Put(item, "file_name", fname)
    IN  IF "emitter" \in DOMAIN stamped /\ stamped["emitter"] = << >>
        THEN Put(stamped, "emitter", fname)
        ELSE stamped

\* lines 191-194
StampFallback(item, fname) ==
    LET stamped == Put(item, "file_name", fname)
    IN  IF "amount10" \notin DOMAIN stamped
        THEN Put(stamped, "amount10", <<"0">>)
        ELSE stamped

\* a stamping loop that forgets the file name
StampPdfKeepsItem(item, fname) == item

\* lines 253-254
StampPdf(item, fname) == Put(item, "file_name", fname)

\* the stamping loop of the branch the call is in
StampAt(site, item, fname) ==
    IF site = "pdf" THEN StampPdf(item, fname) ELSE StampFallback(item, fname)

\* a handler that lets the exception of the PDF branch escape
OnExceptionPdfEscapes(site) ==
    IF site = "pdf" THEN "raised" ELSE "returned"

\* lines 198-200 and 257-259: both try blocks end in `except Exception`,
\* which returns []
OnException(site) == "returned"

PollLimit == 600

\* line 223
PollGivesUp(counter) == counter > PollLimit

DispInit ==
    /\ d_pc = "idle"
    /\ filename = <<"", "">>
    /\ file_readable = FALSE
    /\ data_list = << >>
    /\ file_state = "NONE"
    /\ timeout_counter = 0
    /\ upload_calls = 0
    /\ generate_calls = 0
    /\ fault = "none"
    /\ d_result = << >>

\* lines 134-155, 205-206, 261-263: the branch on the extension, and the
\* spreadsheet branch up to the return of the Python records
Dispatch ==
    /\ d_pc = "idle"
    /\ UNCHANGED <<locVars, crawlVars>>
    /\ \E fname \in DispatchFiles, readable \in BOOLEAN, recs \in LocatorReturns :
         /\ filename' = fname
         /\ file_readable' = readable
         /\ IF IsSpreadsheet(fname)
            THEN /\ data_list' = IF readable THEN recs ELSE << >>
                 /\ IF Len(data_list') > 0
                    THEN /\ d_result' = [i \in 1..Len(data_list') |->
                                            StampPython(data_list'[i], fname)]
                         /\ d_pc' = "returned"
                    ELSE /\ d_result' = << >>
                         /\ d_pc' = "excel_ai"
            ELSE /\ data_list' = << >>
                 /\ d_result' = << >>
                 /\ d_pc' = IF FileExt(fname) = ".pdf" THEN "pdf_upload"
                            ELSE "returned"
    /\ file_state' = "NONE"
    /\ timeout_counter' = 0
    /\ upload_calls' = 0
    /\ generate_calls' = 0
    /\ fault' = "none"

\* the tail shared by both remote branches: generate_content with its one
\* retry (lines 180-186, 244-248), json.loads and the stamping loop
\* (lines 188-196, 250-255)
Generate(site) ==
    \E first \in {"ok", "raise"}, second \in {"ok", "raise"}, js \in JsonValues :
       /\ generate_calls' = IF first = "ok" THEN 1 ELSE 2
       /\ IF first = "raise" /\ second = "raise"
          THEN /\ fault' = "generate_exception"
               /\ d_result' = << >>
               /\ d_pc' = OnException(site)
          ELSE IF js.kind # "list"
          THEN /\ fault' = js.kind
               /\ d_result' = << >>
               /\ d_pc' = OnException(site)
          ELSE /\ fault' = "none"
               /\ d_result' = [i \in 1..Len(js.items) |->
                                  StampAt(site, js.items[i], filename)]
               /\ d_pc' = "returned"

\* lines 157-200: the spreadsheet's remote fallback
ExcelFallback ==
    /\ d_pc = "excel_ai"
    /\ UNCHANGED <<locVars, crawlVars>>
    /\ IF file_readable
       THEN Generate("excel")
       ELSE /\ fault' = "unreadable"          \* line 159 raises
            /\ generate_calls' = 0
            /\ d_result' = << >>
            /\ d_pc' = OnException("excel")
    /\ UNCHANGED <<filename, file_readable, data_list, file_state,
                   timeout_counter, upload_calls>>

\* lines 207-216: upload, then the first look at the processing state
PdfUpload ==
    /\ d_pc = "pdf_upload"
    /\ UNCHANGED <<locVars, crawlVars>>
    /\ upload_calls' = 1
    /\ \E up \in {"raise", "PROCESSING", "ACTIVE", "FAILED"} :
         IF up = "raise"
         THEN /\ fault' = "upload_error"
              /\ d_pc' = OnException("pdf")
              /\ file_state' = "NONE"
         ELSE /\ fault' = "none"
              /\ d_pc' = "pdf_poll"
              /\ file_state' = up
    /\ timeout_counter' = 0
    /\ d_result' = << >>
    /\ UNCHANGED <<filename, file_readable, data_list, generate_calls>>

\* lines 217-225: one pass of the wait loop
PdfPoll ==
    /\ d_pc = "pdf_poll"
    /\ UNCHANGED <<locVars, crawlVars>>
    /\ file_state = "PROCESSING"
    /\ timeout_counter' = timeout_counter + 1
    /\ \E got \in {"raise", "PROCESSING", "ACTIVE", "FAILED"} :
         IF got = "raise"
         THEN /\ fault' = "get_file_exception"
              /\ d_pc' = OnException("pdf")
              /\ file_state' = file_state
         ELSE /\ file_state' = got
              /\ IF PollGivesUp(timeout_counter')
                 THEN /\ fault' = "poll_timeout"
                      /\ d_pc' = "returned"
                 ELSE /\ fault' = "none"
                      /\ d_pc' = "pdf_poll"
    /\ d_result' = << >>
    /\ UNCHANGED <<filename, file_readable, data_list, upload_calls,
                   generate_calls>>

\* lines 227-259: after the wait loop
PdfExtract ==
    /\ d_pc = "pdf_poll"
    /\ UNCHANGED <<locVars, crawlVars>>
    /\ file_state # "PROCESSING"
    /\ IF file_state = "FAILED"
       THEN /\ fault' = "processing_failed"
            /\ generate_calls' = 0
            /\ d_result' = << >>
            /\ d_pc' = "returned"
       ELSE Generate("pdf")
    /\ UNCHANGED <<filename, file_readable, data_list, file_state,
                   timeout_counter, upload_calls>>

\* the caller takes the list; the dispatcher is ready for the next file
DispatchDone ==
    /\ d_pc = "returned"
    /\ UNCHANGED <<locVars, crawlVars>>
    /\ d_pc' = "idle"
    /\ filename' = <<"", "">>
    /\ file_readable' = FALSE
    /\ data_list' = << >>
    /\ file_state' = "NONE"
    /\ timeout_counter' = 0
    /\ upload_calls' = 0
    /\ generate_calls' = 0
    /\ fault' = "none"
    /\ d_result' = << >>

DispNext == Dispatch \/ ExcelFallback \/ PdfUpload \/ PdfPoll \/ PdfExtract
            \/ DispatchDone


-----------------------------------------------------------------------------
(* The Tabular Assembler: lines 316-330 and 437-452, and pd.concat at 482.  *)

\* column_mapping.keys(), in the order the dict literal lists them
ColumnOrder ==
    << "file_name", "municipality", "submitted", "fiscal_year", "doc_type",
       "business_type", "emitter", "site_name", "address", "waste_kind",
       "amount10", "amount11", "amount12", "amount13", "amount14", "remarks" >>

\* column_mapping[key]: the display label.  Most labels repeat the key;
\* 文書種類 becomes 種類 and the amounts lose "_ton" for "(t)".
DisplayLabel(key) ==
    CASE key = "doc_type" -> "kind_label"
      [] key = "amount10" -> "amount10_t"
      [] key = "amount11" -> "amount11_t"
      [] key = "amount12" -> "amount12_t"
      [] key = "amount13" -> "amount13_t"
      [] key = "amount14" -> "amount14_t"
      [] OTHER            -> key

RECURSIVE KeysOf(_)
KeysOf(batch_data) ==
    IF batch_data = << >> THEN {}
    ELSE (DOMAIN Head(batch_data)) \cup KeysOf(Tail(batch_data))

\* a table that keeps pandas' own column order (first appearance)
RECURSIVE Filter(_, _)
Filter(seq, keep) ==
    IF seq = << >> THEN << >>
    ELSE IF Head(seq) \in keep THEN <<Head(seq)>> \o Filter(Tail(seq), keep)
    ELSE Filter(Tail(seq), keep)

\* line 451: target_cols = [c for c in column_mapping.keys() if c in df.columns]
TargetCols(batch_data) == Filter(ColumnOrder, KeysOf(batch_data))

\* lines 438-452: the table of one batch: its columns after the rename and,
\* of its rows, the file-name cell
BatchTable(batch_data) ==
    LET cols == TargetCols(batch_data)
    IN  [ columns |-> [i \in 1..Len(cols) |-> DisplayLabel(cols[i])],
          files   |-> [i \in 1..Len(batch_data) |-> batch_data[i]["file_name"]] ]

\* lines 455-457 (and 333-338): the entry appended to the history
HistoryEntry(label, batch_data) ==
    [ keyword |-> label,
      count   |-> Len(batch_data),
      df      |-> BatchTable(batch_data) ]

\* line 482: pd.concat(all_dfs, ignore_index=True) keeps the columns of the
\* first table and appends every column first met in a later table
RECURSIVE ConcatColumns(_, _)
ConcatColumns(dfs, acc) ==
    IF dfs = << >> THEN acc
    ELSE LET have == {acc[i] : i \in 1..Len(acc)}
             new  == Filter(Head(dfs).columns,
                            {c \in {Head(dfs).columns[i] :
                                      i \in 1..Len(Head(dfs).columns)} :
                                c \notin have})
         IN  ConcatColumns(Tail(dfs), acc \o new)

MergedColumns(hist) ==
    ConcatColumns([i \in 1..Len(hist) |-> hist[i].df], << >>)

RECURSIVE Flatten(_)
Flatten(lists) ==
    IF lists = << >> THEN << >> ELSE Head(lists) \o Flatten(Tail(lists))

-----------------------------------------------------------------------------
(* The page script: session state, buttons, link collection, crawl loop.    *)

MaxBatchSize == 2
MaxHistory   == 2

\* The anchors of the target page, each <<file name, URL>> as line 384
\* builds it.  The first two carry the same file name under two directories.
PageLinks ==
    << << <<"r06", ".pdf">>,  "u1" >>,
       << <<"r06", ".pdf">>,  "u2" >>,
       << <<"r05", ".xlsx">>, "u3" >>,
       << <<"r06b", ".xls">>, "u4" >>,
       << <<"r04", ".pdf">>,  "u5" >> >>

Keywords == {"", "06"}

\* line 383: not keyword or keyword in filename
MatchesKeyword(kw, fname) ==
    kw = "" \/ (kw = "06" /\ fname[1] \in {"r06", "r06b"})

Min(a, b) == IF a < b THEN a ELSE b

Reverse(seq) == [i \in 1..Len(seq) |-> seq[Len(seq) + 1 - i]]

\* lines 364-388: get_file_links.  `net` is the outcome of the page request;
\* `order` is the order list(set(...)) happens to give.
get_file_links(kw, net, order) ==
    IF net = "fail" THEN << >>
    ELSE LET kept == SelectSeq(PageLinks,
                               LAMBDA link : MatchesKeyword(kw, link[1]))
         IN  IF order = "ascending" THEN kept ELSE Reverse(kept)

\* a remaining-work list that forgets the processed set
UnprocessedNoFilter(links, processed) == links

\* lines 393 and 462
Unprocessed(links, processed) ==
    SelectSeq(links, LAMBDA link : link[2] \notin processed)

\* line 410: unprocessed_links[:int(batch_size)]
NextBatch(links, size) == SubSeq(links, 1, Min(size, Len(links)))

\* lines 420-426: requests.get raised nothing and the file was written, so
\* the path joins downloaded_files and the URL joins processed_urls.  A
\* non-2xx answer raises nothing: there is no raise_for_status here.
MarksProcessed(outcome) == outcome # "exception"

Outcomes == {"ok", "http_error", "exception"}

\* lines 419-427: what save_dir holds under `fname` after the download loop:
\* the body written last under that name
RECURSIVE SavedBody(_, _, _, _)
SavedBody(batch, outcomes, i, fname) ==
    IF i = 0 THEN [url |-> "", body |-> "missing"]
    ELSE IF batch[i][1] = fname /\ MarksProcessed(outcomes[i])
    THEN [url |-> batch[i][2],
          body |-> IF outcomes[i] = "ok" THEN "file" ELSE "error_page"]
    ELSE SavedBody(batch, outcomes, i - 1, fname)

\* lines 416-424: downloaded_files, as positions of the batch
DownloadedIdx(batch, outcomes) ==
    SelectSeq([i \in 1..Len(batch) |-> i], LAMBDA i : MarksProcessed(outcomes[i]))

\* what extract_data_with_ai gives for a file of the page: the Python
\* records of a readable spreadsheet (lines 143-153); nothing for a
\* spreadsheet that is no workbook (line 159 raises, lines 197-200); for a
\* PDF the records of the remote answer, or nothing when the remote service
\* fails during this pass (lines 257-259)
TypicalReturn(fname, body, remote_ok) ==
    IF IsSpreadsheet(fname)
    THEN IF body = "file"
         THEN << StampPython(LocatorRecord(CellRubble, CellNum, 1), fname) >>
         ELSE << >>
    ELSE IF remote_ok
         THEN << StampPdf([waste_kind |-> CellRubble,
                           amount10 |-> <<"1", "0", ".", "5">>,
                           amount11 |-> <<"0">>], fname) >>
         ELSE << >>

\* `empty_passes` counts, modulo 2, the passes in a row that downloaded
\* nothing: it tells such a pass from the one before it
NoLog == [batch |-> << >>, outcomes |-> << >>, calls |-> << >>,
          empty_passes |-> 0]

CrawlInit ==
    /\ pc = "top"
    /\ clicked = "none"
    /\ rendered = {}
    /\ history = << >>
    /\ processed_urls = {}
    /\ is_running = FALSE
    /\ keyword = ""
    /\ batch_size = MaxBatchSize
    /\ all_file_links = << >>
    /\ unprocessed_links = << >>
    /\ iter_log = NoLog
    /\ merged_columns = << >>

\* st.rerun(): the script starts over; no button is clicked in the new run
Rerun ==
    /\ pc' = "top"
    /\ clicked' = "none"
    /\ rendered' = {}

\* The operator acts on the finished page: clicks a button it shows, or
\* edits the keyword or the batch size.  Either starts a new run.  A run of
\* the script is modelled as running to its end (or to its st.rerun())
\* before the next interaction is served.
OperatorInteract ==
    /\ pc = "wait"
    /\ UNCHANGED <<locVars, dispVars>>
    /\ \/ /\ \E b \in rendered : clicked' = b
          /\ UNCHANGED <<keyword, batch_size>>
       \/ /\ clicked' = "none"
          /\ \E kw \in Keywords, bs \in 1..MaxBatchSize :
                keyword' = kw /\ batch_size' = bs
    /\ pc' = "top"
    /\ rendered' = {}
    /\ UNCHANGED <<history, processed_urls, is_running, all_file_links,
                   unprocessed_links, iter_log, merged_columns>>

\* lines 43-47: the sidebar's clear button, the first thing a run of the
\* script decides; the run starts without the local variables of the run
\* before it (the links, the loop's locals, merged_df).  When it was not clicked the
\* script goes on to the upload tab, which only draws its widgets
\* (lines 280-289) unless its button was the one clicked.
ResetButton ==
    /\ pc = "top"
    /\ UNCHANGED <<locVars, dispVars>>
    /\ IF clicked = "reset"
       THEN /\ history' = << >>
            /\ processed_urls' = {}
            /\ is_running' = FALSE
            /\ Rerun
       ELSE /\ pc' = IF clicked = "upload" THEN "tab1" ELSE "tab2"
            /\ rendered' = rendered \cup {"reset", "upload"}
            /\ UNCHANGED <<history, processed_urls, is_running, clicked>>
    /\ iter_log' = NoLog
    /\ all_file_links' = << >>
    /\ unprocessed_links' = << >>
    /\ merged_columns' = << >>
    /\ UNCHANGED <<keyword, batch_size>>

\* the files the operator drops on the uploader
UploadChoices == { << <<"up2", ".xlsx">>, <<"up1", ".pdf">> >> }

\* the model stops producing records once the history holds MaxHistory entries
WithinHistoryBound(results) ==
    Len(history) < MaxHistory \/ Flatten(results) = << >>

\* lines 280-345: the upload tab
ManualUpload ==
    /\ pc = "tab1"
    /\ UNCHANGED <<locVars, dispVars>>
    /\ clicked = "upload"
    /\ \E uploaded_files \in UploadChoices, api_key \in BOOLEAN :
         \E remote_ok \in BOOLEAN :
           LET results == [i \in 1..Len(uploaded_files) |->
                             TypicalReturn(uploaded_files[i], "file",
                                           remote_ok)]
               batch_data == Flatten(results)
           IN  /\ WithinHistoryBound(results)
               /\ history' =
                    IF api_key /\ batch_data # << >>
                    THEN Append(history,
                                HistoryEntry("manual_upload", batch_data))
                    ELSE history
    /\ pc' = "tab2"
    /\ UNCHANGED <<clicked, rendered, processed_urls, is_running, keyword, batch_size,
                   all_file_links, unprocessed_links, iter_log,
                   merged_columns>>

\* lines 390-396: collect the links and work out what is left
CollectLinks ==
    /\ pc = "tab2"
    /\ UNCHANGED <<locVars, dispVars>>
    /\ \E net \in {"ok", "fail"}, order \in {"ascending", "descending"} :
         /\ all_file_links' = get_file_links(keyword, net, order)
         /\ unprocessed_links' = Unprocessed(all_file_links', processed_urls)
    /\ pc' = "start_button"
    /\ UNCHANGED <<clicked, rendered, history, processed_urls, is_running,
                   keyword, batch_size, iter_log, merged_columns>>

\* lines 398-404: the start button, drawn only when work is left and no
\* crawl is running
StartButton ==
    /\ pc = "start_button"
    /\ UNCHANGED <<locVars, dispVars>>
    /\ IF Len(unprocessed_links) > 0 /\ ~is_running
       THEN IF clicked = "start"
            THEN /\ is_running' = TRUE
                 /\ Rerun
            ELSE /\ pc' = "history"
                 /\ rendered' = rendered \cup {"start"}
                 /\ UNCHANGED <<is_running, clicked>>
       ELSE /\ pc' = IF is_running THEN "loop" ELSE "history"
            /\ UNCHANGED <<is_running, clicked, rendered>>
    /\ UNCHANGED <<history, processed_urls, keyword, batch_size,
                   all_file_links, unprocessed_links, iter_log,
                   merged_columns>>

\* lines 408-470: one pass of the while loop
CrawlIteration ==
    /\ pc = "loop"
    /\ UNCHANGED <<locVars, dispVars>>
    /\ Len(unprocessed_links) > 0
    /\ is_running
    /\ LET next_batch == NextBatch(unprocessed_links, batch_size)
       IN  \E outcomes \in [1..Len(next_batch) -> Outcomes] :
             LET got   == DownloadedIdx(next_batch, outcomes)
                 calls == [k \in 1..Len(got) |->
                             [fname |-> next_batch[got[k]][1],
                              content |-> SavedBody(next_batch, outcomes,
                                                    Len(next_batch),
                                                    next_batch[got[k]][1])]]
             IN  \E remote_ok \in BOOLEAN :
                   LET results == [k \in 1..Len(calls) |->
                                     TypicalReturn(calls[k].fname,
                                                   calls[k].content.body,
                                                   remote_ok)]
                   IN  \E batch_data \in {Flatten(results)} :
                       /\ WithinHistoryBound(results)
                       /\ processed_urls' = processed_urls \cup
                             {next_batch[got[k]][2] : k \in 1..Len(got)}
                       /\ history' =
                            IF batch_data # << >>
                            THEN Append(history, HistoryEntry(keyword, batch_data))
                            ELSE history
                       /\ iter_log' = [batch |-> next_batch,
                                       outcomes |-> outcomes,
                                       calls |-> calls,
                                       empty_passes |->
                                          IF got = << >>
                                          THEN (iter_log.empty_passes + 1) % 2
                                          ELSE 0]
    /\ unprocessed_links' = Unprocessed(all_file_links, processed_urls')
    /\ IF Len(unprocessed_links') = 0
       THEN /\ is_running' = FALSE
            /\ Rerun
       ELSE /\ pc' = "loop"
            /\ UNCHANGED <<is_running, clicked, rendered>>
    /\ UNCHANGED <<keyword, batch_size, all_file_links, merged_columns>>

\* lines 408-409: the loop is left without a pass when nothing remains
\* (or when is_running is found cleared)
LoopExit ==
    /\ pc = "loop"
    /\ UNCHANGED <<locVars, dispVars>>
    /\ Len(unprocessed_links) = 0 \/ ~is_running
    /\ pc' = "cancel_button"
    /\ UNCHANGED <<clicked, rendered, history, processed_urls, is_running,
                   keyword, batch_size, all_file_links, unprocessed_links,
                   iter_log, merged_columns>>

\* lines 472-474: the cancel button, drawn after the loop
CancelButton ==
    /\ pc = "cancel_button"
    /\ UNCHANGED <<locVars, dispVars>>
    /\ IF clicked = "cancel"
       THEN /\ is_running' = FALSE
            /\ Rerun
       ELSE /\ pc' = "history"
            /\ rendered' = rendered \cup {"cancel"}
            /\ UNCHANGED <<is_running, clicked>>
    /\ UNCHANGED <<history, processed_urls, keyword, batch_size,
                   all_file_links, unprocessed_links, iter_log,
                   merged_columns>>

\* lines 476-503: the history area with the merged download
HistoryArea ==
    /\ pc = "history"
    /\ UNCHANGED <<locVars, dispVars>>
    /\ merged_columns' = MergedColumns(history)
    /\ pc' = "wait"
    /\ UNCHANGED <<clicked, rendered, history, processed_urls, is_running,
                   keyword, batch_size, all_file_links, unprocessed_links,
                   iter_log>>

Next == \/ OperatorInteract \/ ResetButton \/ ManualUpload \/ CollectLinks
        \/ StartButton \/ CrawlIteration \/ LoopExit \/ CancelButton
        \/ HistoryArea

-----------------------------------------------------------------------------
(* Specifications.                                                          *)

Init == LocInit /\ DispInit /\ CrawlInit

Spec == Init /\ [][Next]_vars

SpecLocator == Init /\ [][LocNext]_vars

SpecDispatch == Init /\ [][DispNext]_vars

\* the single thread of the script keeps running the call it is in
SpecDispatchFair == SpecDispatch /\ WF_vars(DispNext)

\* the while loop keeps taking its next pass (line 470 only sleeps a
\* second); the operator is free never to act
SpecFair == Spec /\ WF_vars(CrawlIteration)

-----------------------------------------------------------------------------
(* C7: the dispatcher's branches.                                           *)

Branches(RemoteCallExpected) ==
    d_pc = "returned" =>
        /\ IsSpreadsheet(filename) =>
              /\ (generate_calls > 0) <=> RemoteCallExpected
              /\ upload_calls = 0
        /\ FileExt(filename) = ".pdf" => upload_calls > 0
        /\ (~IsSpreadsheet(filename) /\ FileExt(filename) # ".pdf") =>
              /\ d_result = << >>
              /\ upload_calls = 0
              /\ generate_calls = 0
        /\ \A i \in 1..Len(d_result) :
              /\ "file_name" \in DOMAIN d_result[i]
              /\ d_result[i]["file_name"] = filename

\* C7 as written: for .xlsx/.xls the remote extraction call is made if and
\* only if the Table Locator returned zero records; for .pdf the remote path
\* is always used; any other extension returns no records and makes no
\* remote call; every returned record carries the source file name.
C7_AsWritten == Branches(data_list = << >>)

\* C7 amended: for .xlsx/.xls the remote extraction call is made if and only
\* if the Table Locator returned zero records and the workbook can be read
\* again for its text form (an unreadable workbook gives no records and no
\* remote call); the other three parts as written.
C7_BranchesOnExtension == Branches(data_list = << >> /\ file_readable)

\* a readable spreadsheet without Python records, answered by the remote call
C7_Witness ==
    /\ d_pc = "returned"
    /\ FileExt(filename) = ".xlsx"
    /\ data_list = << >>
    /\ generate_calls > 0
    /\ Len(d_result) > 0

-----------------------------------------------------------------------------
(* C8: the dispatcher never raises, returns nothing on failure and never   *)
(* waits without end.                                                       *)

\* C8: whatever the remote service does (upload error, exception from the
\* extraction call, malformed JSON, FAILED, PROCESSING for ever) the call
\* never ends in an exception, a call that met a failure returns the empty
\* list, the processing state is polled at most PollLimit + 1 times, and
\* every call that was started returns.
C8_NeverRaisesNorHangs ==
    /\ [](d_pc # "raised")
    /\ []((d_pc = "returned" /\ fault # "none") => d_result = << >>)
    /\ [](timeout_counter <= PollLimit + 1)
    /\ ((d_pc # "idle") ~> (d_pc = "returned"))

\* the wait loop gave up on a file that stayed in PROCESSING
C8_Witness ==
    /\ d_pc = "returned"
    /\ fault = "poll_timeout"
    /\ timeout_counter = PollLimit + 1
    /\ file_state = "PROCESSING"
    /\ d_result = << >>

-----------------------------------------------------------------------------
(* C1 - C5: the crawl session.                                              *)

\* the step about to be taken is a pass of the while loop (line 408 and
\* line 409 both let it through)
IsCrawlPass == pc = "loop" /\ is_running /\ Len(unprocessed_links) > 0

\* URLs of the logged batch whose request ended as `which` says
UrlsWith(log, which) ==
    {log.batch[i][2] : i \in {j \in 1..Len(log.batch) : log.outcomes[j] \in which}}

\* URLs of the logged batch
BatchUrls(log) == {log.batch[i][2] : i \in 1..Len(log.batch)}

\* C1: a URL joins ProcessedSet exactly when its download succeeded: a pass
\* of the crawl loop adds the URLs of its batch that were answered with a
\* 2xx status and no others; an attempt that ends in a connection error, a
\* timeout or a non-2xx status leaves ProcessedSet unchanged.
C1_ProcessedIffDownloadSucceeded ==
    [][IsCrawlPass =>
          processed_urls' = processed_urls \cup UrlsWith(iter_log', {"ok"})]_vars

\* C2: each pass handles at most batch_size links of the remaining work; with
\* batch_size 2 and 5 unprocessed links the passes handle 2, then 2, then 1
\* link whichever downloads succeed (so the remaining work goes 5, 3, 1, 0
\* and no link is handled by two passes in a row), and ProcessedSet grows by
\* exactly the downloaded part of the pass's batch.
C2_BatchSchedule ==
    [][IsCrawlPass =>
          /\ Len(iter_log'.batch) <= batch_size
          /\ BatchUrls(iter_log') \subseteq
                {unprocessed_links[i][2] : i \in 1..Len(unprocessed_links)}
          /\ (batch_size = 2 /\ Len(unprocessed_links) \in {1, 3, 5}) =>
                /\ Len(iter_log'.batch) = Min(2, Len(unprocessed_links))
                /\ Len(unprocessed_links') =
                      Len(unprocessed_links) - Len(iter_log'.batch)
                /\ BatchUrls(iter_log') \cap BatchUrls(iter_log) = {}
          /\ processed_urls' \ processed_urls =
                {iter_log'.batch[i][2] :
                   i \in {j \in 1..Len(iter_log'.batch) :
                            iter_log'.outcomes[j] # "exception"}}]_vars

\* C3: once the operator has asked to cancel, a Running loop with work left
\* starts no further batch: the loop sees the request at the top of its next
\* pass and the session goes Idle with ProcessedSet and the history as the
\* last finished batch left them.
C3_CancelStopsBeforeNextBatch ==
    [][(IsCrawlPass /\ clicked = "cancel") =>
          /\ is_running' = FALSE
          /\ processed_urls' = processed_urls
          /\ history' = history]_vars

\* C4: the session is Running only while work remains: Running is entered
\* only with a non-empty remaining-work list, and a script run never ends
\* (waiting for the operator) Running with an empty remaining-work list.
C4_RunningOnlyWhileWorkRemains ==
    (pc = "wait" /\ is_running) => Len(unprocessed_links) > 0

\* C5: ProcessedSet only grows: every step other than the reset button's
\* (link discovery, a keyword or batch-size edit, start, cancel, a finished
\* batch, a manual upload) keeps every URL it holds, so only the reset can
\* empty it; and no URL of ProcessedSet is put in a later batch.
C5_ProcessedSetOnlyGrows ==
    [][/\ ~(pc = "top" /\ clicked = "reset") =>
             processed_urls \subseteq processed_urls'
       /\ IsCrawlPass => BatchUrls(iter_log') \cap processed_urls = {}]_vars

\* a crawl under the keyword "06" has finished, link discovery ran again
\* without keyword, and a batch of the new crawl has finished while the URLs
\* of the earlier crawl are still in ProcessedSet
C5_Witness ==
    /\ pc = "loop"
    /\ keyword = ""
    /\ iter_log.batch # << >>
    /\ \E i \in 1..Len(history) : history[i].keyword = "06"
    /\ {"u1", "u2", "u4"} \subseteq processed_urls
    /\ BatchUrls(iter_log) \cap {"u1", "u2", "u4"} = {}

-----------------------------------------------------------------------------
(* C9: column order of the batch tables and of the merged export.           *)

CanonicalLabels == [i \in 1..Len(ColumnOrder) |-> DisplayLabel(ColumnOrder[i])]

ColumnSet(columns) == {columns[i] : i \in 1..Len(columns)}

\* C9: once the history area has been drawn, the merged export has the
\* columns present in at least one batch, in the canonical order, whatever
\* columns the batches had and in whatever order they were appended; and
\* every batch's own table has its columns in the canonical order.
C9_ExportInCanonicalOrder ==
    /\ pc = "wait" =>
          merged_columns =
             Filter(CanonicalLabels,
                    UNION {ColumnSet(history[i].df.columns) :
                             i \in 1..Len(history)})
    /\ \A i \in 1..Len(history) :
          history[i].df.columns =
             Filter(CanonicalLabels, ColumnSet(history[i].df.columns))

-----------------------------------------------------------------------------
(* C10: the Audit Reconciler of the specification (section 4.6).  The       *)
(* program has no such component; these definitions follow the              *)
(* specification's contract over the program's links and history.           *)

\* the complete discovered filename set
DiscoveredNames == {all_file_links[i][1] : i \in 1..Len(all_file_links)}

\* the filename field of all accumulated records
RecordNames == Flatten([i \in 1..Len(history) |-> history[i].df.files])

\* the count of matching records
AuditCount(f) == Len(SelectSeq(RecordNames, LAMBDA n : n = f))

\* a classification that calls every file matched
AuditStatusAlwaysMatched(f) == "matched"

\* "matched" (>= 1 record shares that filename) or "unmatched" (0 records)
AuditStatus(f) == IF AuditCount(f) >= 1 THEN "matched" ELSE "unmatched"

\* the per-file table
AuditTable ==
    {[file |-> f, status |-> AuditStatus(f), count |-> AuditCount(f)] :
        f \in DiscoveredNames}

\* C10: every discovered filename is classified matched if and only if at
\* least one accumulated record carries that filename, and the matched count
\* plus the unmatched count is the size of the discovered filename set.
C10_AuditClassifiesEveryFile ==
    LET table == AuditTable
        names == RecordNames
    IN  /\ \A f \in DiscoveredNames :
              /\ \E r \in table : r.file = f
              /\ \A r \in table :
                    r.file = f =>
                       ((r.status = "matched") <=>
                          \E j \in 1..Len(names) : names[j] = f)
        /\ Cardinality({r \in table : r.status = "matched"})
             + Cardinality({r \in table : r.status = "unmatched"})
           = Cardinality(DiscoveredNames)

\* the audit of a full discovery with a file that has records from two
\* history entries and a file that has none
C10_Witness ==
    /\ Cardinality(DiscoveredNames) = 4
    /\ \E r \in AuditTable : r.status = "matched" /\ r.count = 2
    /\ \E r \in AuditTable : r.status = "unmatched"
    /\ Len(history) = 2

-----------------------------------------------------------------------------
(* C11, C12: the crawl loop's passes.                                       *)

\* C11: a loop that is Running with work left goes back to Idle by itself
\* whatever the downloads do, also when a link's download fails every time;
\* and a link whose download failed in one pass is not in the batch of the
\* next pass of the same run.
C11_LoopEndsWithoutRetry ==
    /\ (pc = "loop" /\ is_running /\ Len(unprocessed_links) > 0)
          ~> ~is_running
    /\ [][IsCrawlPass =>
             BatchUrls(iter_log') \cap UrlsWith(iter_log, {"exception"}) = {}]_vars

\* C12: in every pass the extractor is called once for each link of the
\* batch that was downloaded, in order, on the content that came from that
\* link's own URL, also when two links of the batch carry the same file name.
C12_EachDownloadExtractedOnce ==
    LET got == DownloadedIdx(iter_log.batch, iter_log.outcomes)
    IN  /\ Len(iter_log.calls) = Len(got)
        /\ \A k \in 1..Len(got) :
              /\ iter_log.calls[k].fname = iter_log.batch[got[k]][1]
              /\ iter_log.calls[k].content.url = iter_log.batch[got[k]][2]

====
